---- MODULE Spec2Model ----
(***************************************************************************)
(* A model of scripts/rank_required_courses.py: the spreadsheet reader     *)
(* (col_index, read_shared_strings, read_sheet_rows), the rating           *)
(* aggregation (parse_number, extract_core_course_columns,                 *)
(* aggregate_course_ratings) and the PNG encoder (make_png).               *)
(*                                                                         *)
(* Every function of the script is a pure transform of its arguments, so   *)
(* each is modelled as one call: the arguments are drawn in the initial    *)
(* state, one action runs the whole function body, and the state after it  *)
(* holds what the caller sees (the returned value, or that the call        *)
(* raised, and for make_png the file on disk).                             *)
(*                                                                         *)
(* Text is held as strings; characters are the one-character substrings.   *)
(* Bytes are integers 0..255 and byte strings are sequences of them.       *)
(***************************************************************************)
EXTENDS Integers, Sequences, FiniteSets, TLC

VARIABLES
    cell_ref,      \* col_index: the argument
    col_pc,        \* col_index: "call", "returned"
    col_ret,       \* col_index: the returned value
    workbook,      \* read_sheet_rows: the archive members at `path`
    sheet_pc,      \* read_sheet_rows: "call", "returned", "raised"
    sheet_ret,     \* read_sheet_rows: the returned list of rows
    survey_rows,   \* aggregate_course_ratings: the argument `rows`
    agg_pc,        \* aggregate_course_ratings: "call", "returned", "raised"
    agg_ret,       \* aggregate_course_ratings: the returned list
    png_args,      \* make_png: [width, height, rgb_rows]
    png_pc,        \* make_png: "call", "returned", "raised"
    png_file       \* make_png: the bytes of the file at `path`, or NoFile

colVars   == <<cell_ref, col_pc, col_ret>>
sheetVars == <<workbook, sheet_pc, sheet_ret>>
aggVars   == <<survey_rows, agg_pc, agg_ret>>
pngVars   == <<png_args, png_pc, png_file>>
vars      == <<cell_ref, col_pc, col_ret, workbook, sheet_pc, sheet_ret,
               survey_rows, agg_pc, agg_ret, png_args, png_pc, png_file>>

\* The value of a variable that holds nothing yet.
None == <<>>

(***************************************************************************)
(* Generic helpers.                                                        *)
(***************************************************************************)
SeqsUpTo(S, n) == UNION {[1..k -> S] : k \in 0..n}

\* The i-th character of a string, as a one-character string.
CharAt(s, i) == SubSeq(s, i, i)

UpperLetters == "ABCDEFGHIJKLMNOPQRSTUVWXYZ"
LowerLetters == "abcdefghijklmnopqrstuvwxyz"

\* ord() of the ASCII letters, keyed by the letter.
UpperOrd ==
    [A |-> 65, B |-> 66, C |-> 67, D |-> 68, E |-> 69, F |-> 70, G |-> 71,
     H |-> 72, I |-> 73, J |-> 74, K |-> 75, L |-> 76, M |-> 77, N |-> 78,
     O |-> 79, P |-> 80, Q |-> 81, R |-> 82, S |-> 83, T |-> 84, U |-> 85,
     V |-> 86, W |-> 87, X |-> 88, Y |-> 89, Z |-> 90]
LowerOrd ==
    [a |-> 97, b |-> 98, c |-> 99, d |-> 100, e |-> 101, f |-> 102, g |-> 103,
     h |-> 104, i |-> 105, j |-> 106, k |-> 107, l |-> 108, m |-> 109, n |-> 110,
     o |-> 111, p |-> 112, q |-> 113, r |-> 114, s |-> 115, t |-> 116, u |-> 117,
     v |-> 118, w |-> 119, x |-> 120, y |-> 121, z |-> 122]

\* str.isalpha and str.isspace on one ASCII character.
IsAlpha(ch) == ch \in DOMAIN UpperOrd \/ ch \in DOMAIN LowerOrd
IsSpace(ch) == ch = " "

\* ord() of an ASCII letter: "A" is 65, "a" is 97.
Ord(ch) == IF ch \in DOMAIN UpperOrd THEN UpperOrd[ch] ELSE LowerOrd[ch]

\* str.upper and str.lower on one ASCII character.
ToUpper(ch) ==
    IF ch \in DOMAIN LowerOrd THEN CharAt(UpperLetters, LowerOrd[ch] - 96) ELSE ch
ToLower(ch) ==
    IF ch \in DOMAIN UpperOrd THEN CharAt(LowerLetters, UpperOrd[ch] - 64) ELSE ch

(***************************************************************************)
(* col_index                                                               *)
(***************************************************************************)
RECURSIVE OnlyLetters(_)
\* "".join(ch for ch in cell_ref if ch.isalpha())
OnlyLetters(s) ==
    IF Len(s) = 0 THEN ""
    ELSE (IF IsAlpha(CharAt(s, 1)) THEN CharAt(s, 1) ELSE "")
         \o OnlyLetters(SubSeq(s, 2, Len(s)))

RECURSIVE ColValue(_, _)
\* for ch in letters: value = value * 26 + (ord(ch.upper()) - 64)
ColValue(letters, value) ==
    IF Len(letters) = 0 THEN value
    ELSE ColValue(SubSeq(letters, 2, Len(letters)),
                  value * 26 + (Ord(ToUpper(CharAt(letters, 1))) - 64))

\* A col_index that numbers the letters from zero (A=0 .. Z=25) and drops the
\* final "- 1".
RECURSIVE ColValueZeroBased(_, _)
ColValueZeroBased(letters, value) ==
    IF Len(letters) = 0 THEN value
    ELSE ColValueZeroBased(SubSeq(letters, 2, Len(letters)),
                           value * 26 + (Ord(ToUpper(CharAt(letters, 1))) - 65))
col_index_zero_based(ref) == ColValueZeroBased(OnlyLetters(ref), 0)

col_index(ref) == ColValue(OnlyLetters(ref), 0) - 1

(***************************************************************************)
(* read_shared_strings and read_sheet_rows                                 *)
(*                                                                         *)
(* The archive at `path` is the parsed content of its two members:         *)
(*   has_shared : whether xl/sharedStrings.xml is in the archive;          *)
(*   shared : the sequence of its <si> entries, each the sequence of the   *)
(*            texts of its <t> nodes;                                      *)
(*   sheet  : the sequence of <row> elements of sheetData, each the        *)
(*            sequence of its <c> cells [r, t, v]: r the "r" attribute,    *)
(*            t the "t" attribute, v the texts of the cell's <v> nodes     *)
(*            (none or one).                                               *)
(* The text of a node without text is "" (ElementTree gives None; the code *)
(* reads it as `text or ""` or passes it to int(), which raises for both), *)
(* and a cell without a "t" attribute has t = "" (the code only compares   *)
(* it with "s").                                                           *)
(*                                                                         *)
(* A computation that may raise yields Ok(value) or Raised.                *)
(***************************************************************************)
Ok(x)  == [ok |-> TRUE, val |-> x]
Raised == [ok |-> FALSE]

RECURSIVE JoinParts(_)
\* "".join(parts), with parts = [node.text or "" for node in ...]
JoinParts(si) ==
    IF Len(si) = 0 THEN "" ELSE Head(si) \o JoinParts(Tail(si))

\* A read_shared_strings that appends an entry only when it has text runs.
read_shared_strings_skipping_empty(wb) ==
    IF ~wb.has_shared THEN <<>>
    ELSE LET kept == SelectSeq(wb.shared, LAMBDA si : Len(si) > 0)
         IN  [i \in 1..Len(kept) |-> JoinParts(kept[i])]

read_shared_strings(wb) ==
    IF ~wb.has_shared THEN <<>>
    ELSE [i \in 1..Len(wb.shared) |-> JoinParts(wb.shared[i])]

\* str.strip() for ASCII spaces.
RECURSIVE LStrip(_)
LStrip(s) ==
    IF Len(s) > 0 /\ IsSpace(CharAt(s, 1)) THEN LStrip(SubSeq(s, 2, Len(s))) ELSE s
RECURSIVE RStrip(_)
RStrip(s) ==
    IF Len(s) > 0 /\ IsSpace(CharAt(s, Len(s))) THEN RStrip(SubSeq(s, 1, Len(s) - 1)) ELSE s
Strip(s) == RStrip(LStrip(s))

\* The value of the decimal digits, keyed by the digit.
DigitValue == ("0" :> 0) @@ ("1" :> 1) @@ ("2" :> 2) @@ ("3" :> 3) @@ ("4" :> 4)
              @@ ("5" :> 5) @@ ("6" :> 6) @@ ("7" :> 7) @@ ("8" :> 8) @@ ("9" :> 9)
IsDigit(ch) == ch \in DOMAIN DigitValue

AllDigits(s) == Len(s) > 0 /\ \A i \in 1..Len(s) : IsDigit(CharAt(s, i))

RECURSIVE DigitsValue(_, _)
DigitsValue(s, acc) ==
    IF Len(s) = 0 THEN acc
    ELSE DigitsValue(SubSeq(s, 2, Len(s)), acc * 10 + DigitValue[CharAt(s, 1)])

\* int(text): surrounding whitespace is dropped, one sign is allowed, and the
\* rest must be decimal digits; anything else raises.
PyInt(text) ==
    LET t    == Strip(text)
        sign == IF Len(t) > 0 /\ CharAt(t, 1) \in {"+", "-"} THEN CharAt(t, 1) ELSE ""
        body == IF sign = "" THEN t ELSE SubSeq(t, 2, Len(t))
    IN  IF AllDigits(body)
        THEN Ok(IF sign = "-" THEN 0 - DigitsValue(body, 0) ELSE DigitsValue(body, 0))
        ELSE Raised

\* list[i] for a Python list held as a sequence: a negative index counts from
\* the end, and an index outside -len..len-1 raises IndexError.
PyListGet(list, i) ==
    LET j == IF i < 0 THEN i + Len(list) ELSE i
    IN  IF j < 0 \/ j >= Len(list) THEN Raised ELSE Ok(list[j + 1])

\* A dict assignment that keeps the value already stored under the key.
DictSetKeepingFirst(d, k, v) ==
    [x \in (DOMAIN d) \cup {k} |-> IF x \in DOMAIN d THEN d[x] ELSE v]

\* d[k] = v
DictSet(d, k, v) == [x \in (DOMAIN d) \cup {k} |-> IF x = k THEN v ELSE d[x]]

EmptyDict == [x \in {} |-> ""]

\* The body of the loop over the cells of a row, after idx: the text stored
\* for one cell.
CellValue(cell, shared_strings) ==
    IF Len(cell.v) = 0 THEN Ok("")
    ELSE LET raw_text == Head(cell.v)
         IN  IF cell.t = "s"
             THEN LET i == PyInt(raw_text)
                  IN  IF i.ok THEN PyListGet(shared_strings, i.val) ELSE Raised
             ELSE Ok(raw_text)

\* The loop over the cells of a row with the cells that have no <v> node left
\* out of row_values.
RECURSIVE ReadCellsSkippingEmpty(_, _, _)
ReadCellsSkippingEmpty(cells, row_values, shared_strings) ==
    IF Len(cells) = 0 THEN Ok(row_values)
    ELSE LET cell  == Head(cells)
             idx   == col_index(cell.r)
             value == CellValue(cell, shared_strings)
         IN  IF ~value.ok THEN Raised
             ELSE ReadCellsSkippingEmpty(
                      Tail(cells),
                      IF Len(cell.v) = 0 THEN row_values
                      ELSE DictSet(row_values, idx, value.val),
                      shared_strings)

RECURSIVE ReadCells(_, _, _)
\* for cell in row.findall("x:c", NS): ...
ReadCells(cells, row_values, shared_strings) ==
    IF Len(cells) = 0 THEN Ok(row_values)
    ELSE LET cell  == Head(cells)
             idx   == col_index(cell.r)
             value == CellValue(cell, shared_strings)
         IN  IF ~value.ok THEN Raised
             ELSE ReadCells(Tail(cells), DictSet(row_values, idx, value.val),
                            shared_strings)

RECURSIVE ReadRows(_, _, _)
\* for row in ...findall("x:row", NS): ...; rows.append(row_values)
ReadRows(sheet, rows, shared_strings) ==
    IF Len(sheet) = 0 THEN Ok(rows)
    ELSE LET row_values == ReadCells(Head(sheet), EmptyDict, shared_strings)
         IN  IF ~row_values.ok THEN Raised
             ELSE ReadRows(Tail(sheet), Append(rows, row_values.val), shared_strings)

read_sheet_rows(wb) == ReadRows(wb.sheet, <<>>, read_shared_strings(wb))

(***************************************************************************)
(* make_png                                                                *)
(*                                                                         *)
(* width and height are Python integers; values up to 2^32 matter to       *)
(* struct.pack, so an integer n is held as its two halves [hi, lo] with    *)
(* n = hi * 65536 + lo and lo in 0..65535 (hi < 0 for a negative n).  The  *)
(* same form holds the 32-bit CRC and Adler checksums.                     *)
(***************************************************************************)
Halves(n) == [hi |-> n \div 65536, lo |-> n % 65536]

\* struct.pack("!I", n): four bytes, most significant first; raises
\* struct.error unless 0 <= n <= 2^32 - 1.
PackU32(n) ==
    IF n.hi < 0 \/ n.hi > 65535 THEN Raised
    ELSE Ok(<<n.hi \div 256, n.hi % 256, n.lo \div 256, n.lo % 256>>)

RECURSIVE BitXor(_, _)
\* a ^ b for non-negative integers.
BitXor(a, b) ==
    IF a = 0 THEN b
    ELSE IF b = 0 THEN a
    ELSE ((a + b) % 2) + 2 * BitXor(a \div 2, b \div 2)

\* One step of the reflected CRC-32 shift register, polynomial EDB88320.
CrcShift1(c) ==
    LET hi == c.hi \div 2
        lo == (c.lo \div 2) + (c.hi % 2) * 32768
    IN  IF c.lo % 2 = 1
        THEN [hi |-> BitXor(hi, 60856), lo |-> BitXor(lo, 33568)]
        ELSE [hi |-> hi, lo |-> lo]

RECURSIVE CrcShift(_, _)
CrcShift(c, rounds) ==
    IF rounds = 0 THEN c ELSE CrcShift1(CrcShift(c, rounds - 1))

\* Entry n of the table of the byte-wise CRC-32: the register n after eight
\* shifts.
CrcTable == [n \in 0..255 |-> CrcShift([hi |-> 0, lo |-> n], 8)]

\* c = table[(c ^ byte) & 0xFF] ^ (c >> 8)
CrcByte(c, byte) ==
    LET t == CrcTable[BitXor(c.lo % 256, byte)]
    IN  [hi |-> BitXor(t.hi, c.hi \div 256),
         lo |-> BitXor(t.lo, (c.lo \div 256) + (c.hi % 256) * 256)]

Word32 == [hi : 0..65535, lo : 0..65535]

\* The register c after the bytes from..to, taken in order: the first half,
\* then the second half from the register the first half leaves.
CrcRange[c \in Word32, bytes \in Seq(0..255), from \in Nat, to \in Nat] ==
    IF from > to THEN c
    ELSE IF from = to THEN CrcByte(c, bytes[from])
    ELSE CrcRange[CrcRange[c, bytes, from, (from + to) \div 2],
                  bytes, ((from + to) \div 2) + 1, to]

\* zlib.crc32(bytes) & 0xFFFFFFFF
Crc32(bytes) ==
    LET c == CrcRange[[hi |-> 65535, lo |-> 65535], bytes, 1, Len(bytes)]
    IN  [hi |-> 65535 - c.hi, lo |-> 65535 - c.lo]

RECURSIVE SumRange(_, _, _)
\* bytes[from] + ... + bytes[to]
SumRange(bytes, from, to) ==
    IF from > to THEN 0
    ELSE IF from = to THEN bytes[from]
    ELSE SumRange(bytes, from, (from + to) \div 2)
         + SumRange(bytes, ((from + to) \div 2) + 1, to)

RECURSIVE WeightedSumRange(_, _, _)
\* The sum over i in from..to of (len - i + 1) * bytes[i]: how often each byte
\* is counted when the running sums are summed.
WeightedSumRange(bytes, from, to) ==
    IF from > to THEN 0
    ELSE IF from = to THEN (Len(bytes) - from + 1) * bytes[from]
    ELSE WeightedSumRange(bytes, from, (from + to) \div 2)
         + WeightedSumRange(bytes, ((from + to) \div 2) + 1, to)

\* The Adler-32 checksum that ends a zlib stream: a is 1 plus the sum of the
\* bytes, b the sum of the values a takes after each byte, both modulo 65521;
\* the checksum is b * 65536 + a.
Adler32(bytes) ==
    [hi |-> (Len(bytes) + WeightedSumRange(bytes, 1, Len(bytes))) % 65521,
     lo |-> (1 + SumRange(bytes, 1, Len(bytes))) % 65521]

\* zlib.compress(raw, 9): a zlib stream that inflates to raw.  The stream is
\* written here in the stored-block form of the format: the two header bytes
\* of a level-9 stream, one final stored block (its length and the length's
\* complement, least significant byte first, then the bytes), and the
\* Adler-32 of raw.  The deflate coding zlib chooses is a size tradeoff and
\* no part of the encoder's contract.
ZlibCompress(raw) ==
    <<120, 218>>
    \o <<1, Len(raw) % 256, Len(raw) \div 256,
         255 - (Len(raw) % 256), 255 - (Len(raw) \div 256)>>
    \o raw
    \o PackU32(Adler32(raw)).val

\* chunk(tag, data) with the CRC taken over the data alone.
chunk_crc_of_data_only(tag, data) ==
    PackU32(Halves(Len(data))).val \o tag \o data \o PackU32(Crc32(data)).val

\* def chunk(tag, data): length, tag, data, CRC-32 of tag + data.
chunk(tag, data) ==
    PackU32(Halves(Len(data))).val \o tag \o data \o PackU32(Crc32(tag \o data)).val

RECURSIVE JoinRows(_)
\* b"".join(rgb_rows): the scanlines without their filter bytes.
JoinRows(rgb_rows) ==
    IF Len(rgb_rows) = 0 THEN <<>> ELSE Head(rgb_rows) \o JoinRows(Tail(rgb_rows))

RECURSIVE FilteredRows(_)
\* b"".join(b"\x00" + row for row in rgb_rows)
FilteredRows(rgb_rows) ==
    IF Len(rgb_rows) = 0 THEN <<>>
    ELSE <<0>> \o Head(rgb_rows) \o FilteredRows(Tail(rgb_rows))

PngSignature == <<137, 80, 78, 71, 13, 10, 26, 10>>   \* b"\x89PNG\r\n\x1a\n"
TagIHDR == <<73, 72, 68, 82>>
TagIDAT == <<73, 68, 65, 84>>
TagIEND == <<73, 69, 78, 68>>

\* struct.pack("!IIBBBBB", width, height, 8, 2, 0, 0, 0)
PackIhdr(width, height) ==
    LET w == PackU32(width)
        h == PackU32(height)
    IN  IF w.ok /\ h.ok THEN Ok(w.val \o h.val \o <<8, 2, 0, 0, 0>>) ELSE Raised

\* The body of make_png up to the write: the bytes of the image, or Raised.
PngBytes(width, height, rgb_rows) ==
    LET raw  == FilteredRows(rgb_rows)
        ihdr == PackIhdr(width, height)
    IN  IF ~ihdr.ok THEN Raised
        ELSE Ok(PngSignature
                \o chunk(TagIHDR, ihdr.val)
                \o chunk(TagIDAT, ZlibCompress(raw))
                \o chunk(TagIEND, <<>>))

(***************************************************************************)
(* aggregate_course_ratings and what it calls.  A dict is the sequence of  *)
(* its items [k, v] in insertion order; an Optional is None or the tuple   *)
(* of its one value.  A float is the fraction num / den: den is 0 for an   *)
(* infinity (num is its sign) and for NaN (num is 0).                      *)
(***************************************************************************)
DictGet(d, k, default) ==
    IF \E i \in 1..Len(d) : d[i].k = k
    THEN d[CHOOSE i \in 1..Len(d) : d[i].k = k].v
    ELSE default

\* str.lower
RECURSIVE Lower(_)
Lower(s) ==
    IF Len(s) = 0 THEN ""
    ELSE IF Len(s) = 1 THEN ToLower(s)
    ELSE Lower(SubSeq(s, 1, Len(s) \div 2)) \o Lower(SubSeq(s, (Len(s) \div 2) + 1, Len(s)))

\* sub in s
Contains(s, sub) ==
    \E i \in 1..(Len(s) - Len(sub) + 1) : SubSeq(s, i, i + Len(sub) - 1) = sub

\* s.split(" - ")[-1] for the part of s from position `from` on: the
\* separators are found left to right and do not overlap.
RECURSIVE LastOfSplit(_, _)
LastOfSplit(s, from) ==
    LET hits == {i \in from..(Len(s) - 2) : SubSeq(s, i, i + 2) = " - "}
    IN  IF hits = {} THEN SubSeq(s, from, Len(s))
        ELSE LastOfSplit(s, (CHOOSE i \in hits : \A j \in hits : i <= j) + 3)

\* re.sub(r"\s+", " ", s) for the characters from..to of s: every run of
\* whitespace becomes one space.
RECURSIVE CollapseSpaces(_, _, _)
CollapseSpaces(s, from, to) ==
    IF from > to THEN ""
    ELSE IF from = to
         THEN IF ~IsSpace(CharAt(s, from)) THEN CharAt(s, from)
              ELSE IF from > 1 /\ IsSpace(CharAt(s, from - 1)) THEN "" ELSE " "
    ELSE CollapseSpaces(s, from, (from + to) \div 2)
         \o CollapseSpaces(s, ((from + to) \div 2) + 1, to)

normalize_course_name(label) ==
    LET part == Strip(LastOfSplit(label, 1))
    IN  CollapseSpaces(part, 1, Len(part))

Float(num, den) == [num |-> num, den |-> den]
NaN == Float(0, 0)
IsNaN(x) == x.den = 0 /\ x.num = 0
IsInf(x) == x.den = 0 /\ x.num # 0

RECURSIVE Gcd(_, _)
Gcd(a, b) == IF b = 0 THEN a ELSE Gcd(b, a % b)
Abs(n) == IF n < 0 THEN 0 - n ELSE n

\* The fraction in lowest terms.
Reduced(num, den) ==
    IF den = 0 THEN Float(num, den)
    ELSE Float(num \div Gcd(Abs(num), den), den \div Gcd(Abs(num), den))

\* float + float
FloatAdd(a, b) ==
    IF IsNaN(a) \/ IsNaN(b) THEN NaN
    ELSE IF IsInf(a) /\ IsInf(b) THEN (IF a.num = b.num THEN a ELSE NaN)
    ELSE IF IsInf(a) THEN a
    ELSE IF IsInf(b) THEN b
    ELSE Reduced(a.num * b.den + b.num * a.den, a.den * b.den)

\* float / n, for the int n > 0
FloatDiv(a, n) == IF a.den = 0 THEN a ELSE Reduced(a.num, a.den * n)

\* -float
FloatNeg(a) == Float(0 - a.num, a.den)

\* float == float and float < float: both are false when either is NaN.
FloatEq(a, b) ==
    /\ ~IsNaN(a) /\ ~IsNaN(b)
    /\ IF a.den = 0 \/ b.den = 0 THEN a = b ELSE a.num * b.den = b.num * a.den
FloatLt(a, b) ==
    /\ ~IsNaN(a) /\ ~IsNaN(b)
    /\ IF a.den = 0 \/ b.den = 0
       THEN (IF a.den = 0 THEN a.num ELSE 0) < (IF b.den = 0 THEN b.num ELSE 0)
       ELSE a.num * b.den < b.num * a.den

Pow10(n) == IF n = 0 THEN 1 ELSE IF n = 1 THEN 10 ELSE IF n = 2 THEN 100 ELSE 1000

\* float(text) of a text without surrounding whitespace, for the literals
\* [sign] digits [. digits], [sign] inf, [sign] infinity and [sign] nan in any
\* letter case; every other text raises ValueError.
PyFloat(text) ==
    LET signed == Len(text) > 0 /\ CharAt(text, 1) \in {"+", "-"}
        sign   == IF signed /\ CharAt(text, 1) = "-" THEN 0 - 1 ELSE 1
        body   == Lower(IF signed THEN SubSeq(text, 2, Len(text)) ELSE text)
        dots   == {i \in 1..Len(body) : CharAt(body, i) = "."}
    IN  IF body \in {"inf", "infinity"} THEN Ok(Float(sign, 0))
        ELSE IF body = "nan" THEN Ok(NaN)
        ELSE IF AllDigits(body) THEN Ok(Float(sign * DigitsValue(body, 0), 1))
        ELSE IF /\ Cardinality(dots) = 1
                /\ \A i \in dots :
                       /\ AllDigits(SubSeq(body, 1, i - 1))
                       /\ AllDigits(SubSeq(body, i + 1, Len(body)))
                       /\ Len(body) - i <= 3
             THEN LET i == CHOOSE j \in dots : TRUE
                  IN  Ok(Reduced(sign * DigitsValue(SubSeq(body, 1, i - 1)
                                                     \o SubSeq(body, i + 1, Len(body)), 0),
                                 Pow10(Len(body) - i)))
        ELSE Raised

parse_number(value) ==
    LET text   == Strip(value)
        number == PyFloat(text)
    IN  IF text = "" THEN None
        ELSE IF ~number.ok THEN None
        ELSE IF IsNaN(number.val) THEN None
        ELSE <<number.val>>

IsCoreCourseLabel(label) ==
    Contains(Lower(label), "macc core course") /\ Contains(Lower(label), "- acc")

RECURSIVE CoreCourseItems(_)
CoreCourseItems(items) ==
    IF Len(items) = 0 THEN <<>>
    ELSE (IF IsCoreCourseLabel(Head(items).v)
          THEN <<[k |-> Head(items).k, v |-> normalize_course_name(Head(items).v)]>>
          ELSE <<>>)
         \o CoreCourseItems(Tail(items))

extract_core_course_columns(question_row) ==
    IF Len(CoreCourseItems(question_row)) = 0 THEN Raised
    ELSE Ok(CoreCourseItems(question_row))

\* ratings_by_course[course].append(rating)
AppendRating(ratings_by_course, course, rating) ==
    IF \E i \in 1..Len(ratings_by_course) : ratings_by_course[i].k = course
    THEN [i \in 1..Len(ratings_by_course) |->
             IF ratings_by_course[i].k = course
             THEN [k |-> course, v |-> Append(ratings_by_course[i].v, rating)]
             ELSE ratings_by_course[i]]
    ELSE Append(ratings_by_course, [k |-> course, v |-> <<rating>>])

\* for idx, course in course_columns.items(): ...
RECURSIVE RateRow(_, _, _)
RateRow(row, course_columns, ratings_by_course) ==
    IF Len(course_columns) = 0 THEN ratings_by_course
    ELSE LET rating == parse_number(DictGet(row, Head(course_columns).k, ""))
         IN  RateRow(row, Tail(course_columns),
                     IF rating = None THEN ratings_by_course
                     ELSE AppendRating(ratings_by_course, Head(course_columns).v, rating[1]))

\* for row in data_rows: ...
RECURSIVE RateRows(_, _, _)
RateRows(data_rows, course_columns, ratings_by_course) ==
    IF Len(data_rows) = 0 THEN ratings_by_course
    ELSE RateRows(Tail(data_rows), course_columns,
                  RateRow(Head(data_rows), course_columns, ratings_by_course))

\* sum(values), computed left to right
RECURSIVE Sum(_, _)
Sum(values, total) ==
    IF Len(values) = 0 THEN total ELSE Sum(Tail(values), FloatAdd(total, Head(values)))

\* for course, values in ratings_by_course.items(): results.append(...)
Results(ratings_by_course) ==
    [i \in 1..Len(ratings_by_course) |->
        [course         |-> ratings_by_course[i].k,
         mean_rating    |-> FloatDiv(Sum(ratings_by_course[i].v, Float(0, 1)),
                                     Len(ratings_by_course[i].v)),
         response_count |-> Len(ratings_by_course[i].v)]]

\* The code point of a character of the course names.
CodePoint(ch) ==
    IF ch = " " THEN 32
    ELSE IF ch = "-" THEN 45
    ELSE IF IsDigit(ch) THEN 48 + DigitValue[ch]
    ELSE Ord(ch)

\* str < str
StrLess(s1, s2) ==
    LET shorter == IF Len(s1) < Len(s2) THEN Len(s1) ELSE Len(s2)
        differ  == {i \in 1..shorter : CharAt(s1, i) # CharAt(s2, i)}
    IN  IF differ = {} THEN Len(s1) < Len(s2)
        ELSE LET i == CHOOSE j \in differ : \A n \in differ : j <= n
             IN  CodePoint(CharAt(s1, i)) < CodePoint(CharAt(s2, i))

\* key(a) < key(b) for key = lambda item: (-item["mean_rating"], item["course"]):
\* tuples compare by their first pair of elements that are not equal.
KeyLess(a, b) ==
    IF ~FloatEq(FloatNeg(a.mean_rating), FloatNeg(b.mean_rating))
    THEN FloatLt(FloatNeg(a.mean_rating), FloatNeg(b.mean_rating))
    ELSE StrLess(a.course, b.course)

\* list.sort on a list shorter than 64, step 1: the length of the run the list
\* starts with, and whether that run is strictly descending.
CountRun(list) ==
    IF Len(list) <= 1 THEN [n |-> Len(list), descending |-> FALSE]
    ELSE LET descending == KeyLess(list[2], list[1])
             Continues(i) == KeyLess(list[i], list[i - 1]) = descending
         IN  [n |-> CHOOSE n \in 2..Len(list) :
                        /\ \A i \in 2..n : Continues(i)
                        /\ n = Len(list) \/ ~Continues(n + 1),
              descending |-> descending]

Reverse(list) == [i \in 1..Len(list) |-> list[Len(list) + 1 - i]]

\* Step 2, binary insertion: where list[start] goes among list[1..start-1].
RECURSIVE Bisect(_, _, _, _)
Bisect(list, pivot, l, r) ==
    IF l >= r THEN l
    ELSE LET p == l + ((r - l) \div 2)
         IN  IF KeyLess(pivot, list[p + 1]) THEN Bisect(list, pivot, l, p)
             ELSE Bisect(list, pivot, p + 1, r)

RECURSIVE BinarySort(_, _)
BinarySort(list, start) ==
    IF start > Len(list) THEN list
    ELSE LET l == Bisect(list, list[start], 0, start - 1)
         IN  BinarySort(SubSeq(list, 1, l) \o <<list[start]>>
                        \o SubSeq(list, l + 1, start - 1)
                        \o SubSeq(list, start + 1, Len(list)),
                        start + 1)

\* results.sort(key=...)
SortResults(results) ==
    LET run == CountRun(results)
    IN  BinarySort((IF run.descending THEN Reverse(SubSeq(results, 1, run.n))
                    ELSE SubSeq(results, 1, run.n))
                   \o SubSeq(results, run.n + 1, Len(results)),
                   run.n + 1)

\* for i, item in enumerate(results, start=1): item["rank"] = i
Ranked(results) ==
    [i \in 1..Len(results) |->
        [course         |-> results[i].course,
         mean_rating    |-> results[i].mean_rating,
         response_count |-> results[i].response_count,
         rank           |-> i]]

aggregate_course_ratings(rows) ==
    IF Len(rows) < 4 THEN Raised
    ELSE LET question_row   == rows[2]
             data_rows      == SubSeq(rows, 4, Len(rows))
             course_columns == extract_core_course_columns(question_row)
         IN  IF ~course_columns.ok THEN Raised
             ELSE Ok(Ranked(SortResults(Results(
                      RateRows(data_rows, course_columns.val, <<>>)))))

(***************************************************************************)
(* One call of col_index.                                                  *)
(***************************************************************************)
MaxRunLen == 3

\* The letters the references are built from, and the row digits after them.
RunLetters   == {"A", "J", "M", "Z"}
DigitSuffixes == {"", "7", "12"}

RECURSIVE LetterRuns(_)
\* The runs of exactly n letters.
LetterRuns(n) ==
    IF n = 0 THEN {""} ELSE {r \o c : r \in LetterRuns(n - 1), c \in RunLetters}

RunsUpTo(n) == UNION {LetterRuns(k) : k \in 1..n}

\* The letter runs of 1..MaxRunLen letters.
Runs == RunsUpTo(MaxRunLen)

CellRefs == {r \o d : r \in Runs \cup {""}, d \in DigitSuffixes}

IdleCol   == cell_ref = "" /\ col_pc = "idle" /\ col_ret = None
IdleSheet == workbook = None /\ sheet_pc = "idle" /\ sheet_ret = None
IdleAgg   == survey_rows = None /\ agg_pc = "idle" /\ agg_ret = None
IdlePng   == png_args = None /\ png_pc = "idle" /\ png_file = None

InitCol ==
    /\ cell_ref \in CellRefs
    /\ col_pc = "call"
    /\ col_ret = None
    /\ IdleSheet /\ IdleAgg /\ IdlePng

CallColIndex ==
    /\ col_pc = "call"
    /\ col_ret' = col_index(cell_ref)
    /\ col_pc' = "returned"
    /\ UNCHANGED <<cell_ref, sheetVars, aggVars, pngVars>>

NextCol == CallColIndex

SpecCol == InitCol /\ [][NextCol]_vars

\* s1 comes before s2 in the column order A, B, ..., Z, AA, AB, ...:
\* shorter first, then alphabetical.
RECURSIVE AlphaLess(_, _)
AlphaLess(s1, s2) ==
    /\ Len(s1) > 0
    /\ \/ Ord(CharAt(s1, 1)) < Ord(CharAt(s2, 1))
       \/ /\ CharAt(s1, 1) = CharAt(s2, 1)
          /\ AlphaLess(SubSeq(s1, 2, Len(s1)), SubSeq(s2, 2, Len(s2)))

Precedes(s1, s2) == Len(s1) < Len(s2) \/ (Len(s1) = Len(s2) /\ AlphaLess(s1, s2))

RECURSIVE Pow26(_)
Pow26(n) == IF n = 0 THEN 1 ELSE 26 * Pow26(n - 1)

RECURSIVE RunsShorterThan(_)
\* How many letter runs (over all 26 letters) have fewer than n letters.
RunsShorterThan(n) == IF n <= 1 THEN 0 ELSE Pow26(n - 1) + RunsShorterThan(n - 1)

RECURSIVE RankAmongSameLength(_)
\* How many runs of the same length come before s alphabetically.
RankAmongSameLength(s) ==
    IF Len(s) = 0 THEN 0
    ELSE (Ord(CharAt(s, 1)) - 65) * Pow26(Len(s) - 1)
         + RankAmongSameLength(SubSeq(s, 2, Len(s)))

\* C1: col_index of a run of uppercase letters (followed by any digits) is
\* the zero-based position of the run in the order A, ..., Z, AA, AB, ...; it
\* is strictly increasing along that order, "A" is 0, "Z" is 25, "AA" is 26,
\* "AMJ" is 1023, and the digits after the letters do not change the result.
C1_ColIndexOrderPreserving ==
    col_pc = "returned" =>
        \A s1 \in Runs, d \in DigitSuffixes :
            cell_ref = s1 \o d =>
                /\ col_ret = RunsShorterThan(Len(s1)) + RankAmongSameLength(s1)
                /\ col_ret = col_index(s1)
                /\ \A s2 \in Runs :
                    /\ Precedes(s1, s2) => col_ret < col_index(s2)
                    /\ Precedes(s2, s1) => col_index(s2) < col_ret
                /\ s1 = "A" => col_ret = 0
                /\ s1 = "Z" => col_ret = 25
                /\ s1 = "AA" => col_ret = 26
                /\ s1 = "AMJ" => col_ret = 1023

C1_Witness == col_pc = "returned" /\ cell_ref = "AMJ12" /\ col_ret = 1023

(***************************************************************************)
(* One call of read_sheet_rows.                                            *)
(***************************************************************************)
MaxPool  == 2   \* <si> entries in sharedStrings.xml
MaxRows  == 2   \* <row> elements in the sheet
MaxCells == 2   \* <c> elements in the sheet, over all its rows

\* The <si> entries: no text run, one run, two runs.
SiSamples == {<<>>, <<"Tax">>, <<"Course", " Name">>}

\* The <c> cells: without a <v> node, with an empty <v> node, a literal under
\* a reference without letters, and shared-string cells of index 0, 1 and -1
\* and of a value that is no number.
CellSamples ==
    { [r |-> "A1", t |-> "",    v |-> <<>>],
      [r |-> "B2", t |-> "str", v |-> <<"">>],
      [r |-> "7",  t |-> "n",   v |-> <<"5">>],
      [r |-> "b2", t |-> "s",   v |-> <<"0">>],
      [r |-> "A1", t |-> "s",   v |-> <<" 1">>],
      [r |-> "B2", t |-> "s",   v |-> <<"-1">>],
      [r |-> "C3", t |-> "s",   v |-> <<"x">>] }

CellSeqs(n) == [1..n -> CellSamples]

RECURSIVE SheetsWithin(_, _)
\* The sheets of at most `rows` rows holding at most `cells` cells in all.
SheetsWithin(rows, cells) ==
    IF rows = 0 THEN {<<>>}
    ELSE {<<>>} \cup
         UNION { { <<row>> \o rest : row \in CellSeqs(k),
                                     rest \in SheetsWithin(rows - 1, cells - k) }
                 : k \in 0..cells }

\* The workbooks with or without a sharedStrings.xml part: a pool of at most
\* pool_size entries and a sheet of at most `rows` rows and `cells` cells.
WorkbooksWithin(pool_size, rows, cells) ==
    { [has_shared |-> TRUE, shared |-> pool, sheet |-> sheet] :
          pool \in SeqsUpTo(SiSamples, pool_size), sheet \in SheetsWithin(rows, cells) }
    \cup
    { [has_shared |-> FALSE, shared |-> <<>>, sheet |-> sheet] :
          sheet \in SheetsWithin(rows, cells) }

InitSheet ==
    /\ workbook \in WorkbooksWithin(MaxPool, MaxRows, MaxCells)
    /\ sheet_pc = "call"
    /\ sheet_ret = None
    /\ IdleCol /\ IdleAgg /\ IdlePng

CallReadSheetRows ==
    /\ sheet_pc = "call"
    /\ LET result == read_sheet_rows(workbook)
       IN  /\ sheet_pc' = IF result.ok THEN "returned" ELSE "raised"
           /\ sheet_ret' = IF result.ok THEN result.val ELSE None
    /\ UNCHANGED <<workbook, colVars, aggVars, pngVars>>

NextSheet == CallReadSheetRows

SpecSheet == InitSheet /\ [][NextSheet]_vars

\* The cells of the k-th <row> of the sheet.
RowCells(k) == workbook.sheet[k]

\* No later cell of the row has the column of its j-th cell.
LastOfColumn(cells, j) ==
    \A j2 \in (j + 1)..Len(cells) : col_index(cells[j2].r) # col_index(cells[j].r)

RECURSIVE ToDecimal(_)
\* The decimal digits of n >= 0.
ToDecimal(n) ==
    IF n < 10 THEN CharAt("0123456789", n + 1)
    ELSE ToDecimal(n \div 10) \o CharAt("0123456789", (n % 10) + 1)

\* The text writes the integer i, possibly between spaces.
WritesInteger(text, i) ==
    \E before \in {"", " "}, after \in {"", " "} :
        text = before \o (IF i < 0 THEN "-" \o ToDecimal(0 - i) ELSE ToDecimal(i)) \o after

RECURSIVE RunsFrom(_, _, _)
\* From position `from` on, s is the runs one after the other and nothing else.
RunsFrom(s, runs, from) ==
    IF Len(runs) = 0 THEN from = Len(s) + 1
    ELSE /\ from + Len(Head(runs)) - 1 <= Len(s)
         /\ Len(Head(runs)) > 0 => SubSeq(s, from, from + Len(Head(runs)) - 1) = Head(runs)
         /\ RunsFrom(s, Tail(runs), from + Len(Head(runs)))

\* C2: when read_sheet_rows returns, a cell of type "s" whose value is the
\* index i of an entry of the pool gives, at its column, the text runs of the
\* i-th <si> entry in document order, one after the other with nothing between
\* them; an entry without text runs is the empty string at its position.
C2_SharedStringByPosition ==
    sheet_pc = "returned" =>
        \A k \in 1..Len(workbook.sheet) : \A j \in 1..Len(RowCells(k)) :
            LET cell == RowCells(k)[j]
            IN  (cell.t = "s" /\ Len(cell.v) = 1 /\ LastOfColumn(RowCells(k), j)) =>
                    \A i \in 0..(Len(workbook.shared) - 1) :
                        WritesInteger(cell.v[1], i) =>
                            RunsFrom(sheet_ret[k][col_index(cell.r)],
                                     workbook.shared[i + 1], 1)

C2_Witness ==
    /\ sheet_pc = "returned"
    /\ workbook.shared = << <<>>, <<"Course", " Name">> >>
    /\ workbook.sheet = << << [r |-> "b2", t |-> "s", v |-> <<"0">>],
                              [r |-> "A1", t |-> "s", v |-> <<" 1">>] >> >>
    /\ sheet_ret = << (0 :> "Course Name") @@ (1 :> "") >>

\* C3: in every row read_sheet_rows returns, the keys are exactly the column
\* indexes of the row's cell nodes; a cell without a value node gives "" at
\* its column, and a column without a cell node is no key of the row.
C3_KeysAreTheCellsColumns ==
    sheet_pc = "returned" =>
        \A k \in 1..Len(sheet_ret) :
            /\ DOMAIN sheet_ret[k] =
                   {col_index(RowCells(k)[j].r) : j \in 1..Len(RowCells(k))}
            /\ \A j \in 1..Len(RowCells(k)) :
                   (Len(RowCells(k)[j].v) = 0 /\ LastOfColumn(RowCells(k), j)) =>
                       sheet_ret[k][col_index(RowCells(k)[j].r)] = ""

C3_Witness ==
    /\ sheet_pc = "returned"
    /\ workbook.sheet = << << [r |-> "A1", t |-> "", v |-> <<>>] >>,
                           << [r |-> "B2", t |-> "str", v |-> <<"">>] >> >>
    /\ sheet_ret = << (0 :> ""), (1 :> "") >>

\* C4: read_sheet_rows returns one mapping per <row>, in document order: the
\* k-th mapping has the columns of the k-th row (a row without cells gives an
\* empty mapping), and at each column the value of the last cell of the row
\* with that column.
C4_RowsAndCellsInDocumentOrder ==
    sheet_pc = "returned" =>
        /\ Len(sheet_ret) = Len(workbook.sheet)
        /\ \A k \in 1..Len(workbook.sheet) :
            /\ DOMAIN sheet_ret[k] =
                   {col_index(RowCells(k)[j].r) : j \in 1..Len(RowCells(k))}
            /\ \A j \in 1..Len(RowCells(k)) :
                   LET cell == RowCells(k)[j]
                   IN  LastOfColumn(RowCells(k), j) =>
                           /\ Len(cell.v) = 0 => sheet_ret[k][col_index(cell.r)] = ""
                           /\ (Len(cell.v) = 1 /\ cell.t # "s") =>
                                  sheet_ret[k][col_index(cell.r)] = cell.v[1]
                           /\ (Len(cell.v) = 1 /\ cell.t = "s") =>
                                  \E i \in 1..Len(workbook.shared) :
                                      RunsFrom(sheet_ret[k][col_index(cell.r)],
                                               workbook.shared[i], 1)

C4_Witness ==
    /\ sheet_pc = "returned"
    /\ workbook.shared = << <<>>, <<"Tax">> >>
    /\ workbook.sheet = << <<>>,
                           << [r |-> "A1", t |-> "s", v |-> <<" 1">>],
                              [r |-> "A1", t |-> "", v |-> <<>>] >> >>
    /\ sheet_ret = << EmptyDict, (0 :> "") >>

\* Some shared-string cell of the sheet holds an integer that is no position
\* of the pool.
HasIndexOutsidePool ==
    \E k \in 1..Len(workbook.sheet) : \E j \in 1..Len(RowCells(k)) :
        LET cell == RowCells(k)[j]
        IN  /\ cell.t = "s"
            /\ Len(cell.v) = 1
            /\ \E i \in (0 - 9)..9 :
                   /\ WritesInteger(cell.v[1], i)
                   /\ (i < 0 \/ i >= Len(workbook.shared))

\* C5: a shared-string cell whose index is outside 0..len(pool)-1 makes the
\* call of read_sheet_rows fail, and no rows are returned.
C5_IndexOutsidePoolRaises ==
    (sheet_pc \in {"returned", "raised"} /\ HasIndexOutsidePool) =>
        (sheet_pc = "raised" /\ sheet_ret = None)

\* Some cell of the sheet has a reference without any letter.
HasRefWithoutLetters ==
    \E k \in 1..Len(workbook.sheet) : \E j \in 1..Len(RowCells(k)) :
        \A n \in 1..Len(RowCells(k)[j].r) :
            CharAt(RowCells(k)[j].r, n) \notin DOMAIN UpperOrd \cup DOMAIN LowerOrd

\* C9: a cell reference without letters makes the call of read_sheet_rows
\* fail, and no rows are returned.
C9_RefWithoutLettersRaises ==
    (sheet_pc \in {"returned", "raised"} /\ HasRefWithoutLetters) =>
        (sheet_pc = "raised" /\ sheet_ret = None)

(***************************************************************************)
(* One call of make_png.                                                   *)
(***************************************************************************)
MaxScanlines == 1   \* len(rgb_rows)
MaxRowBytes  == 3   \* len of one scanline

\* -1, 0, 1, 2^32 - 1 and 2^32.
DimSamples ==
    { [hi |-> 0 - 1, lo |-> 65535], [hi |-> 0, lo |-> 0], [hi |-> 0, lo |-> 1],
      [hi |-> 65535, lo |-> 65535], [hi |-> 65536, lo |-> 0] }

ByteSamples == {0, 255}

NoFile == [exists |-> FALSE]

InitPng ==
    /\ png_args \in [width : DimSamples, height : DimSamples,
                     rgb_rows : SeqsUpTo(SeqsUpTo(ByteSamples, MaxRowBytes), MaxScanlines)]
    /\ png_pc = "call"
    /\ png_file = NoFile
    /\ IdleCol /\ IdleSheet /\ IdleAgg

CallMakePng ==
    /\ png_pc = "call"
    /\ LET png == PngBytes(png_args.width, png_args.height, png_args.rgb_rows)
       IN  /\ png_pc' = IF png.ok THEN "returned" ELSE "raised"
           /\ png_file' = IF png.ok THEN [exists |-> TRUE, bytes |-> png.val]
                          ELSE png_file
    /\ UNCHANGED <<png_args, colVars, sheetVars, aggVars>>

NextPng == CallMakePng

SpecPng == InitPng /\ [][NextPng]_vars

\* The integer n is in 1..2^32-1.
IsDimension(n) == n.hi \in 0..65535 /\ (n.hi > 0 \/ n.lo > 0)

\* The four bytes of `bytes` from position `at`, read most significant first.
ReadU32(bytes, at) ==
    [hi |-> bytes[at] * 256 + bytes[at + 1], lo |-> bytes[at + 2] * 256 + bytes[at + 3]]

\* The chunk of `size` data bytes that starts at position `at` of the file.
ChunkAt(bytes, at, size) ==
    [length |-> ReadU32(bytes, at),
     tag    |-> SubSeq(bytes, at + 4, at + 7),
     data   |-> SubSeq(bytes, at + 8, at + 7 + size),
     crc    |-> ReadU32(bytes, at + 8 + size)]

\* The size of the IDAT data when the file is the signature, an IHDR chunk of
\* 13 data bytes, the IDAT chunk and an IEND chunk without data.
IdatSize(bytes) == Len(bytes) - (8 + 25 + 12 + 12)

\* Where the scanline r starts in the stream of filtered scanlines.
RECURSIVE ScanlineOffset(_, _)
ScanlineOffset(rgb_rows, r) ==
    IF r = 1 THEN 0 ELSE ScanlineOffset(rgb_rows, r - 1) + 1 + Len(rgb_rows[r - 1])

\* The stream is every scanline in order, each after one filter byte 0.
IsFilteredScanlines(stream, rgb_rows) ==
    /\ Len(stream) = ScanlineOffset(rgb_rows, Len(rgb_rows) + 1)
    /\ \A r \in 1..Len(rgb_rows) :
           LET off == ScanlineOffset(rgb_rows, r)
           IN  /\ stream[off + 1] = 0
               /\ SubSeq(stream, off + 2, off + 1 + Len(rgb_rows[r])) = rgb_rows[r]

\* zlib.decompress of a stream of one stored block: the bytes it holds, when
\* its header, the block's length and its complement, and the Adler-32 fit.
ZlibDecompress(data) ==
    IF Len(data) < 11 THEN Raised
    ELSE LET size == data[4] + 256 * data[5]
         IN  IF /\ SubSeq(data, 1, 3) = <<120, 218, 1>>
                /\ data[6] = 255 - data[4]
                /\ data[7] = 255 - data[5]
                /\ Len(data) = 11 + size
                /\ ReadU32(data, 8 + size) = Adler32(SubSeq(data, 8, 7 + size))
             THEN Ok(SubSeq(data, 8, 7 + size))
             ELSE Raised

\* C6: make_png called with a zero width or height, with a number of
\* scanlines other than height, or with a scanline whose length is not
\* width * 3, fails and writes no file.
HasInvalidGeometry ==
    \/ png_args.width = [hi |-> 0, lo |-> 0]
    \/ png_args.height = [hi |-> 0, lo |-> 0]
    \/ png_args.height # Halves(Len(png_args.rgb_rows))
    \/ \E r \in 1..Len(png_args.rgb_rows) :
           \/ png_args.width.hi # 0
           \/ Len(png_args.rgb_rows[r]) # png_args.width.lo * 3

C6_InvalidGeometryFailsBeforeOutput ==
    (png_pc \in {"returned", "raised"} /\ HasInvalidGeometry) =>
        (png_pc = "raised" /\ ~png_file.exists)

IsFramed(c, size) ==
    /\ c.length = Halves(size)
    /\ Len(c.data) = size
    /\ c.crc = Crc32(c.tag \o c.data)

C8_ChunkFraming ==
    png_pc = "returned" =>
        /\ png_file.exists
        /\ IdatSize(png_file.bytes) >= 0
        /\ LET bytes == png_file.bytes
           IN  /\ IsFramed(ChunkAt(bytes, 9, 13), 13)
               /\ ChunkAt(bytes, 9, 13).tag = <<73, 72, 68, 82>>
               /\ IsFramed(ChunkAt(bytes, 34, IdatSize(bytes)), IdatSize(bytes))
               /\ ChunkAt(bytes, 34, IdatSize(bytes)).tag = <<73, 68, 65, 84>>
               /\ IsFramed(ChunkAt(bytes, Len(bytes) - 11, 0), 0)
               /\ ChunkAt(bytes, Len(bytes) - 11, 0).tag = <<73, 69, 78, 68>>
               /\ SubSeq(bytes, Len(bytes) - 3, Len(bytes)) = <<174, 66, 96, 130>>

C8_Witness ==
    /\ png_pc = "returned"
    /\ png_args = [width |-> [hi |-> 0, lo |-> 1], height |-> [hi |-> 0, lo |-> 1],
                   rgb_rows |-> << <<0, 0, 0>> >>]
    /\ Len(png_file.bytes) = 72
    /\ SubSeq(png_file.bytes, 9, 33)
         = <<0, 0, 0, 13, 73, 72, 68, 82, 0, 0, 0, 1, 0, 0, 0, 1, 8, 2, 0, 0, 0,
             144, 119, 83, 222>>

(***************************************************************************)
(* One call of aggregate_course_ratings.                                   *)
(***************************************************************************)
MaxDataRows == 2   \* rows after the three header rows
MaxRatings  == 4   \* cells in the data rows, over all of them

\* The columns of the survey sheet, in the order their cells are read.
Columns == <<0, 1, 2>>

\* Rows 0 and 2 of the export hold a number in every column.
HeaderRow == [i \in 1..Len(Columns) |-> [k |-> Columns[i], v |-> "5"]]

Labelled(labels) == [i \in 1..Len(labels) |-> [k |-> Columns[i], v |-> labels[i]]]

QuestionRows ==
    { Labelled(<<"MAcc Core Course - ACC 1", "macc core course - Acc  2", "Elective - ACC 9">>),
      Labelled(<<"MAcc Core Course - ACC 1", "MAcc Core Course - Rate - ACC 1 ", "Q - MAcc Core Course - ACC 3">>),
      Labelled(<<"MAcc Core Course - ACC 3", "MAcc Core Course - ACC 2", "MAcc Core Course - ACC 1">>),
      Labelled(<<"Elective - ACC 9", "", "MAcc Core Course">>) }

RatingTexts == {"1", " 4.5 ", "inf", "-inf", "nan"}

\* The dicts that give some of the columns from..Len(Columns) a rating text.
RECURSIVE DataRowsFrom(_)
DataRowsFrom(from) ==
    IF from > Len(Columns) THEN {<<>>}
    ELSE LET rest == DataRowsFrom(from + 1)
         IN  rest \cup {<<[k |-> Columns[from], v |-> t]>> \o r : t \in RatingTexts, r \in rest}

\* The lists of at most `rows` data rows that hold at most `cells` cells.
RECURSIVE DataWithin(_, _)
DataWithin(rows, cells) ==
    IF rows = 0 THEN {<<>>}
    ELSE {<<>>} \cup UNION { {<<r>> \o rest : rest \in DataWithin(rows - 1, cells - Len(r))} :
                             r \in {d \in DataRowsFrom(1) : Len(d) <= cells} }

InitAgg ==
    /\ IdleCol /\ IdleSheet /\ IdlePng
    /\ survey_rows \in {<<HeaderRow, q, HeaderRow>> \o d :
                           q \in QuestionRows, d \in DataWithin(MaxDataRows, MaxRatings)}
    /\ agg_pc = "call"
    /\ agg_ret = None

CallAggregate ==
    /\ agg_pc = "call"
    /\ LET result == aggregate_course_ratings(survey_rows)
       IN  /\ agg_pc' = IF result.ok THEN "returned" ELSE "raised"
           /\ agg_ret' = IF result.ok THEN result.val ELSE None
    /\ UNCHANGED <<survey_rows, colVars, sheetVars, pngVars>>

NextAgg == CallAggregate

SpecAgg == InitAgg /\ [][NextAgg]_vars

\* The course columns of the question row, and the ratings the data rows hold
\* for the course: the cells of its columns whose text is a number.
CoreColumns == {i \in 1..Len(survey_rows[2]) : IsCoreCourseLabel(survey_rows[2][i].v)}

CourseOf(i) == normalize_course_name(survey_rows[2][i].v)

RatingCells(course) ==
    {<<r, i>> \in (4..Len(survey_rows)) \X CoreColumns :
        /\ CourseOf(i) = course
        /\ parse_number(DictGet(survey_rows[r], survey_rows[2][i].k, "")) # None}

RatedCourses == {CourseOf(i) : i \in {j \in CoreColumns : RatingCells(CourseOf(j)) # {}}}

EntriesAreTheRatedCourses ==
    /\ {agg_ret[i].course : i \in 1..Len(agg_ret)} = RatedCourses
    /\ Len(agg_ret) = Cardinality(RatedCourses)
    /\ \A i \in 1..Len(agg_ret) :
           agg_ret[i].response_count = Cardinality(RatingCells(agg_ret[i].course))

OrderedByMeanThenName ==
    \A i \in 1..Len(agg_ret), j \in 1..Len(agg_ret) :
        i < j =>
            \/ FloatLt(agg_ret[j].mean_rating, agg_ret[i].mean_rating)
            \/ /\ FloatEq(agg_ret[i].mean_rating, agg_ret[j].mean_rating)
               /\ StrLess(agg_ret[i].course, agg_ret[j].course)

RanksFollowTheList == \A i \in 1..Len(agg_ret) : agg_ret[i].rank = i

\* C10: for at least 4 rows whose second row has a core-course column,
\* aggregate_course_ratings returns one entry per course name that has a
\* numeric rating in rows 3 onward, with response_count the number of those
\* ratings; the entries are ordered by mean rating descending, ties by course
\* name ascending, and their ranks are 1..n in list order.
C10_RankedEntriesPerRatedCourse ==
    (agg_pc \in {"returned", "raised"} /\ Len(survey_rows) >= 4 /\ CoreColumns # {}) =>
        /\ agg_pc = "returned"
        /\ EntriesAreTheRatedCourses
        /\ OrderedByMeanThenName
        /\ RanksFollowTheList

====
